---- MODULE Spec2Model ----
(***************************************************************************)
(* The three TOML key editors of push-chain-node:                          *)
(*   src/deploy/toml_edit.py                  (update_key, main)           *)
(*   src/push-node-manager/scripts/toml_edit.py (set_nested_value, main)   *)
(*   src/validator/scripts/toml_edit.py       (edit_toml)                  *)
(* Each invocation is one load -> set -> save pipeline over one file.      *)
(*                                                                         *)
(* A Python string is a sequence of characters; a character is a one-      *)
(* element token such as "a", "4", "." (the token "sup2" stands for the    *)
(* character U+00B2, SUPERSCRIPT TWO).                                     *)
(***************************************************************************)
EXTENDS Integers, Sequences, FiniteSets, TLC

VARIABLES
    impl,       \* which of the three scripts is run
    nargs,      \* len(sys.argv)
    key_path,   \* sys.argv[2]
    new_value,  \* sys.argv[3]
    file,       \* the file at sys.argv[1]: whether it exists, and its lines
    pc,         \* the step the invocation is at: "load", "set", "save", "exit"
    doc,        \* the parsed document in memory
    rc,         \* the exit code of the process, Running until it ends
    out,        \* the last message printed
    escaped,    \* the exception that left main uncaught, "none" otherwise
    run,        \* the number of the invocation
    file0,      \* the file when the invocation began
    doc0,       \* the document as load returned it
    set_st,     \* how the set step ended: "none" before it, "return", "exit1"
                \* or the exception it raised
    save_st,    \* how the save step ended: "none" before it, or its outcome
    prev        \* how the invocation before this one ended

vars == <<impl, nargs, key_path, new_value, file, pc, doc, rc, out, escaped,
          run, file0, doc0, set_st, save_st, prev>>

\* ------------------------------------------------------------------------
\* Strings
\* ------------------------------------------------------------------------

Upper == <<"A","B","C","D","E","F","G","H","I","J","K","L","M",
           "N","O","P","Q","R","S","T","U","V","W","X","Y","Z">>
Lower == <<"a","b","c","d","e","f","g","h","i","j","k","l","m",
           "n","o","p","q","r","s","t","u","v","w","x","y","z">>

\* str.lower(), one character
LowerChar(c) ==
    IF \E i \in 1..Len(Upper) : Upper[i] = c
    THEN Lower[CHOOSE i \in 1..Len(Upper) : Upper[i] = c]
    ELSE c

\* str.lower()
str_lower(s) == [i \in 1..Len(s) |-> LowerChar(s[i])]

AsciiDigits == {"0","1","2","3","4","5","6","7","8","9"}

\* Characters for which str.isdigit() is true and which int() and float()
\* reject (Numeric_Type=Digit, not Decimal).
NonDecimalDigits == {"sup2"}

DigitValue(c) ==
    CASE c = "0" -> 0 [] c = "1" -> 1 [] c = "2" -> 2 [] c = "3" -> 3
      [] c = "4" -> 4 [] c = "5" -> 5 [] c = "6" -> 6 [] c = "7" -> 7
      [] c = "8" -> 8 [] c = "9" -> 9

DigitChar(n) == <<"0","1","2","3","4","5","6","7","8","9">>[n + 1]

\* str.isdigit(): non-empty and every character a digit
str_isdigit(s) ==
    /\ Len(s) > 0
    /\ \A i \in 1..Len(s) : s[i] \in AsciiDigits \cup NonDecimalDigits

\* every character an ASCII decimal digit (what int() and float() accept)
AllDecimal(s) == \A i \in 1..Len(s) : s[i] \in AsciiDigits

\* index of the first c of s, 0 when there is none
FirstIndex(s, c) ==
    IF \E i \in 1..Len(s) : s[i] = c
    THEN CHOOSE i \in 1..Len(s) : s[i] = c /\ \A j \in 1..(i - 1) : s[j] # c
    ELSE 0

FirstDot(s) == FirstIndex(s, ".")

\* s.replace('.', '', 1)
replace_first_dot(s) ==
    LET d == FirstDot(s)
    IN IF d = 0 THEN s ELSE SubSeq(s, 1, d - 1) \o SubSeq(s, d + 1, Len(s))

\* s.split(c)
RECURSIVE SplitOn(_, _)
SplitOn(s, c) ==
    LET d == FirstIndex(s, c)
    IN IF d = 0 THEN <<s>>
       ELSE <<SubSeq(s, 1, d - 1)>> \o SplitOn(SubSeq(s, d + 1, Len(s)), c)

\* str.split('.')
str_split(s) == SplitOn(s, ".")

\* '.'.join(parts)
RECURSIVE str_join(_)
str_join(parts) ==
    IF Len(parts) = 0 THEN <<>>
    ELSE IF Len(parts) = 1 THEN parts[1]
    ELSE parts[1] \o <<".">> \o str_join(Tail(parts))

\* sub in s, for two str operands: substring test
IsSubstring(sub, s) ==
    \E i \in 1..(Len(s) - Len(sub) + 1) : SubSeq(s, i, i + Len(sub) - 1) = sub

\* the number a string of decimal digits denotes
RECURSIVE DecimalValue(_)
DecimalValue(s) ==
    IF Len(s) = 0 THEN 0
    ELSE 10 * DecimalValue(SubSeq(s, 1, Len(s) - 1)) + DigitValue(s[Len(s)])

\* str(n) for n >= 0
RECURSIVE DecimalDigits(_)
DecimalDigits(n) ==
    IF n < 10 THEN <<DigitChar(n)>>
    ELSE DecimalDigits(n \div 10) \o <<DigitChar(n % 10)>>

RECURSIVE Pow10(_)
Pow10(e) == IF e = 0 THEN 1 ELSE 10 * Pow10(e - 1)

\* ------------------------------------------------------------------------
\* Values of a document (tomlkit items)
\* ------------------------------------------------------------------------

\* every item carries the same fields; the fields its kind does not use
\* are empty: s the characters of a string, n and e the number, a the
\* elements of an array, b the body of a table
Item(t, s, n, e, a, b) == [t |-> t, s |-> s, n |-> n, e |-> e, a |-> a, b |-> b]

String(s)  == Item("str", s, 0, 0, <<>>, <<>>)
Integer(n) == Item("int", <<>>, n, 0, <<>>, <<>>)
Bool(v)    == Item("bool", <<>>, IF v THEN 1 ELSE 0, 0, <<>>, <<>>)
\* a float is n / 10^e, with no trailing zero in the fraction, so equal
\* numbers are equal records
RECURSIVE Float(_, _)
Float(m, e) ==
    IF e > 0 /\ m % 10 = 0 THEN Float(m \div 10, e - 1)
    ELSE Item("float", <<>>, m, e, <<>>, <<>>)
Array(a)   == Item("array", <<>>, 0, 0, a, <<>>)
\* a table is the ordered sequence of its entries [k |-> key, v |-> value]
Table(b)   == Item("table", <<>>, 0, 0, <<>>, b)

IsTable(v) == v.t = "table"

\* int(value)
int_of(s) == Integer(DecimalValue(s))

\* float(value) for digits with one "."
float_of(s) ==
    LET d == FirstDot(s)
    IN Float(DecimalValue(replace_first_dot(s)), Len(s) - d)

\* ------------------------------------------------------------------------
\* Containers: what Python's in, [] and []= do on each kind of node
\* ------------------------------------------------------------------------

HasKey(b, k) == \E i \in 1..Len(b) : b[i].k = k

IndexOf(b, k) == CHOOSE i \in 1..Len(b) : b[i].k = k

GetKey(b, k) == b[IndexOf(b, k)].v

\* container[k] = v: an existing key keeps its place, a new key goes last
PutKey(b, k, v) ==
    IF HasKey(b, k) THEN [b EXCEPT ![IndexOf(b, k)].v = v]
    ELSE Append(b, [k |-> k, v |-> v])

\* the node `current` refers to after descending along path from root
RECURSIVE NodeAt(_, _)
NodeAt(root, path) ==
    IF Len(path) = 0 THEN root
    ELSE NodeAt(GetKey(root.b, path[1]), Tail(path))

\* root after `current[k] = v`, current being the table at path
RECURSIVE SetAt(_, _, _, _)
SetAt(root, path, k, v) ==
    IF Len(path) = 0 THEN Table(PutKey(root.b, k, v))
    ELSE Table(PutKey(root.b, path[1],
                      SetAt(GetKey(root.b, path[1]), Tail(path), k, v)))

\* key in node: "True", "False", or "TypeError" (node is not iterable)
py_contains(node, key) ==
    CASE node.t = "table" -> IF HasKey(node.b, key) THEN "True" ELSE "False"
      [] node.t = "str"   -> IF IsSubstring(key, node.s) THEN "True" ELSE "False"
      [] node.t = "array" ->
            IF \E i \in 1..Len(node.a) : node.a[i] = String(key)
            THEN "True" ELSE "False"
      [] OTHER -> "TypeError"

\* node[key] and node[key] = v with a str key are defined on tables only
\* (str and list indices must be integers; numbers are not subscriptable)
Subscriptable(node) == IsTable(node)

\* hasattr(table_value, 'keys')
HasKeysAttr(v) == IsTable(v)

\* ------------------------------------------------------------------------
\* Messages
\* ------------------------------------------------------------------------

MsgNone       == "(nothing printed)"
MsgTraceback  == "Traceback (most recent call last): ..."
DUsage        == "Usage: toml_edit.py <config_file> <key> <new_value>"
DFileNotFound == "Error: File {filename} not found."
DSection      == "Error: Section '{part}' not found in the document."
DKeyInSection == "Error: Key '{last_key}' not found in section '{section}'."
DKeyNotFound  == "Error: Key '{key_path}' not found in the document."
DAmbiguous    == "Error: Key '{key_path}' found in multiple sections; please use dot notation to specify which one to update."
DUpdated      == "Updated '{key_path}' to '{new_value}' in {filename}"
PUsage        == "Usage: toml_edit.py <file_path> <key_path> <value>"
PNotExist     == "Error: File {file_path} does not exist"
PLoadError    == "Error loading TOML file: {e}"
PSaveError    == "Error saving TOML file: {e}"
PUpdated      == "Successfully updated {key_path} = {value} in {file_path}"
VUsage        == "Usage: python3 toml_edit.py <file_path> <key> <value>"
VError        == "Error editing TOML: {e}"
VUpdated      == "Updated {key} = {value} in {file_path}"

Msg(m, a) == [msg |-> m, args |-> a]

\* ------------------------------------------------------------------------
\* src/deploy/toml_edit.py: update_key
\* ------------------------------------------------------------------------

\* result of a call: st is "return", "exit1" (sys.exit(1) after a print)
\* or the name of the exception raised
Res(d, st, o) == [doc |-> d, st |-> st, out |-> o]

\* lines 15-20: the loop over parts[:-1], from index i, current at cur
RECURSIVE update_key_walk(_, _, _, _)
update_key_walk(d, cur, parts, i) ==
    IF i > Len(parts) - 1 THEN [st |-> "ok", cur |-> cur, part |-> <<>>]
    ELSE LET current == NodeAt(d, cur)
             c       == py_contains(current, parts[i])
         IN CASE c = "TypeError" -> [st |-> "TypeError", cur |-> cur, part |-> parts[i]]
              [] c = "False"     -> [st |-> "exit1", cur |-> cur, part |-> parts[i]]
              [] c = "True"      ->
                    IF Subscriptable(current)
                    THEN update_key_walk(d, Append(cur, parts[i]), parts, i + 1)
                    ELSE [st |-> "TypeError", cur |-> cur, part |-> parts[i]]

\* update_key_dotted without the test of lines 22-24
update_key_dotted_unchecked(d, kp, v) ==
    LET parts    == str_split(kp)
        w        == update_key_walk(d, <<>>, parts, 1)
        last_key == parts[Len(parts)]
        current  == NodeAt(d, w.cur)
    IN CASE w.st = "TypeError" -> Res(d, "TypeError", Msg(MsgTraceback, <<>>))
         [] w.st = "exit1"     -> Res(d, "exit1", Msg(DSection, <<w.part>>))
         [] OTHER ->
              IF Subscriptable(current)
              THEN Res(SetAt(d, w.cur, last_key, v), "return", Msg(MsgNone, <<>>))
              ELSE Res(d, "TypeError", Msg(MsgTraceback, <<>>))

\* lines 12-26: key_path with a dot
update_key_dotted(d, kp, v) ==
    LET parts    == str_split(kp)
        w        == update_key_walk(d, <<>>, parts, 1)
        last_key == parts[Len(parts)]
        current  == NodeAt(d, w.cur)
        c        == py_contains(current, last_key)
    IN CASE w.st = "TypeError" -> Res(d, "TypeError", Msg(MsgTraceback, <<>>))
         [] w.st = "exit1"     -> Res(d, "exit1", Msg(DSection, <<w.part>>))
         [] OTHER ->
              CASE c = "TypeError" -> Res(d, "TypeError", Msg(MsgTraceback, <<>>))
                [] c = "False"     ->
                      Res(d, "exit1",
                          Msg(DKeyInSection,
                              <<last_key, str_join(SubSeq(parts, 1, Len(parts) - 1))>>))
                [] c = "True"      ->
                      IF Subscriptable(current)
                      THEN Res(SetAt(d, w.cur, last_key, v), "return", Msg(MsgNone, <<>>))
                      ELSE Res(d, "TypeError", Msg(MsgTraceback, <<>>))

\* found_tables with the scan stopping at the first table that has the key
found_tables_first(d, kp) ==
    LET all == SelectSeq(d.b, LAMBDA e : HasKeysAttr(e.v) /\ py_contains(e.v, kp) = "True")
    IN SubSeq(all, 1, IF Len(all) = 0 THEN 0 ELSE 1)

\* lines 34-38: the keys of the root's tables that contain key_path, in order
found_tables(d, kp) ==
    SelectSeq(d.b, LAMBDA e : HasKeysAttr(e.v) /\ py_contains(e.v, kp) = "True")

\* update_key_plain without the look at the top level of lines 29-31
update_key_plain_tables_only(d, kp, v) ==
    LET found == SelectSeq(d.b, LAMBDA e : HasKeysAttr(e.v) /\ py_contains(e.v, kp) = "True")
    IN IF Len(found) = 1
       THEN Res(SetAt(d, <<found[1].k>>, kp, v), "return", Msg(MsgNone, <<>>))
       ELSE IF Len(found) = 0
       THEN Res(d, "exit1", Msg(DKeyNotFound, <<kp>>))
       ELSE Res(d, "exit1", Msg(DAmbiguous, <<kp>>))

\* lines 28-47: key_path without a dot
update_key_plain(d, kp, v) ==
    IF py_contains(d, kp) = "True"
    THEN Res(SetAt(d, <<>>, kp, v), "return", Msg(MsgNone, <<>>))
    ELSE LET found == found_tables(d, kp)
         IN IF Len(found) = 1
            THEN Res(SetAt(d, <<found[1].k>>, kp, v), "return", Msg(MsgNone, <<>>))
            ELSE IF Len(found) = 0
            THEN Res(d, "exit1", Msg(DKeyNotFound, <<kp>>))
            ELSE Res(d, "exit1", Msg(DAmbiguous, <<kp>>))

update_key(d, kp, v) ==
    IF FirstDot(kp) # 0 THEN update_key_dotted(d, kp, v)
    ELSE update_key_plain(d, kp, v)

\* ------------------------------------------------------------------------
\* src/push-node-manager/scripts/toml_edit.py: set_nested_value
\* ------------------------------------------------------------------------

\* set_nested_walk without line 41: current stays at the root
RECURSIVE set_nested_walk_at_root(_, _, _, _)
set_nested_walk_at_root(d, cur, keys, i) ==
    IF i > Len(keys) - 1 THEN [st |-> "ok", doc |-> d, cur |-> cur]
    ELSE LET c == py_contains(d, keys[i])
         IN set_nested_walk_at_root(
                IF c = "False" THEN SetAt(d, <<>>, keys[i], Table(<<>>)) ELSE d,
                cur, keys, i + 1)

\* lines 38-41: the loop over keys[:-1]; a missing key gets tomlkit.table()
RECURSIVE set_nested_walk(_, _, _, _)
set_nested_walk(d, cur, keys, i) ==
    IF i > Len(keys) - 1 THEN [st |-> "ok", doc |-> d, cur |-> cur]
    ELSE LET current == NodeAt(d, cur)
             c       == py_contains(current, keys[i])
         IN IF c = "TypeError" \/ ~Subscriptable(current)
            THEN [st |-> "TypeError", doc |-> d, cur |-> cur]
            ELSE set_nested_walk(
                     IF c = "False" THEN SetAt(d, cur, keys[i], Table(<<>>)) ELSE d,
                     Append(cur, keys[i]), keys, i + 1)

\* int() or float() raised ValueError on s
Raised(s) == Item("ValueError", s, 0, 0, <<>>, <<>>)

\* lines 47-55: bool, then int, then float, else the string itself
coerce(value) ==
    IF str_lower(value) = <<"t","r","u","e">> THEN Bool(TRUE)
    ELSE IF str_lower(value) = <<"f","a","l","s","e">> THEN Bool(FALSE)
    ELSE IF str_isdigit(value)
         THEN IF AllDecimal(value) THEN int_of(value) ELSE Raised(value)
    ELSE IF str_isdigit(replace_first_dot(value))
         THEN IF AllDecimal(replace_first_dot(value)) THEN float_of(value)
              ELSE Raised(value)
    ELSE String(value)

\* lines 32-57
set_nested_value(data, kp, value) ==
    LET keys      == str_split(kp)
        w         == set_nested_walk(data, <<>>, keys, 1)
        final_key == keys[Len(keys)]
        v         == coerce(value)
    IN IF w.st # "ok" THEN Res(w.doc, w.st, Msg(MsgTraceback, <<>>))
       ELSE IF v.t = "ValueError" THEN Res(w.doc, "ValueError", Msg(MsgTraceback, <<>>))
       ELSE IF ~Subscriptable(NodeAt(w.doc, w.cur))
            THEN Res(w.doc, "TypeError", Msg(MsgTraceback, <<>>))
       ELSE Res(SetAt(w.doc, w.cur, final_key, v), "return", Msg(MsgNone, <<>>))

\* ------------------------------------------------------------------------
\* src/validator/scripts/toml_edit.py: edit_toml, lines 15-24
\* ------------------------------------------------------------------------

\* edit_toml_walk without the test of line 19: every segment gets a new {}
RECURSIVE edit_toml_walk_always_new(_, _, _, _)
edit_toml_walk_always_new(d, cur, keys, i) ==
    IF i > Len(keys) - 1 THEN [st |-> "ok", doc |-> d, cur |-> cur]
    ELSE edit_toml_walk_always_new(SetAt(d, cur, keys[i], Table(<<>>)),
                                   Append(cur, keys[i]), keys, i + 1)

\* lines 18-21: the loop over keys[:-1]; a missing key gets {}
RECURSIVE edit_toml_walk(_, _, _, _)
edit_toml_walk(d, cur, keys, i) ==
    IF i > Len(keys) - 1 THEN [st |-> "ok", doc |-> d, cur |-> cur]
    ELSE LET current == NodeAt(d, cur)
             c       == py_contains(current, keys[i])
         IN IF c = "TypeError" \/ ~Subscriptable(current)
            THEN [st |-> "TypeError", doc |-> d, cur |-> cur]
            ELSE edit_toml_walk(
                     IF c = "False" THEN SetAt(d, cur, keys[i], Table(<<>>)) ELSE d,
                     Append(cur, keys[i]), keys, i + 1)

\* lines 15-24: the value is stored as the str it was given as
edit_toml_set(d, key, value) ==
    LET keys == str_split(key)
        w    == edit_toml_walk(d, <<>>, keys, 1)
    IN IF w.st # "ok" THEN Res(w.doc, w.st, Msg(VError, <<>>))
       ELSE IF ~Subscriptable(NodeAt(w.doc, w.cur))
            THEN Res(w.doc, "TypeError", Msg(VError, <<>>))
       ELSE Res(SetAt(w.doc, w.cur, keys[Len(keys)], String(value)),
                "return", Msg(MsgNone, <<>>))

\* ------------------------------------------------------------------------
\* The file: tomlkit.parse and tomlkit.dumps on the subset of TOML made of
\* `key = value` lines and `[table.path]` headers, the values being basic
\* strings, integers, floats, booleans and arrays of these.
\* ------------------------------------------------------------------------

Header(path) == [line |-> "header", key |-> path, tok |-> <<>>]
KV(k, tok)   == [line |-> "kv", key |-> k, tok |-> tok]

Quote == "\""

ParseError == Item("ParseError", <<>>, 0, 0, <<>>, <<>>)

\* the text of a scalar
render_scalar(v) ==
    CASE v.t = "str"   -> <<Quote>> \o v.s \o <<Quote>>
      [] v.t = "int"   -> DecimalDigits(v.n)
      [] v.t = "bool"  -> IF v.n = 1 THEN <<"t","r","u","e">> ELSE <<"f","a","l","s","e">>
      [] v.t = "float" ->
            LET whole == v.n \div Pow10(v.e)
                frac  == v.n % Pow10(v.e)
                fd    == DecimalDigits(frac)
                pad   == [i \in 1..(v.e - Len(fd)) |-> "0"]
            IN DecimalDigits(whole) \o <<".">> \o
               (IF v.e = 0 THEN <<"0">> ELSE pad \o fd)

RECURSIVE render_elems(_)
render_elems(a) ==
    IF Len(a) = 0 THEN <<>>
    ELSE IF Len(a) = 1 THEN render_scalar(a[1])
    ELSE render_scalar(a[1]) \o <<",">> \o render_elems(Tail(a))

\* the text of a value that is not a table
render(v) ==
    IF v.t = "array" THEN <<"[">> \o render_elems(v.a) \o <<"]">>
    ELSE render_scalar(v)

\* the scalar a token denotes
lex_scalar(tok) ==
    LET n == Len(tok)
        d == FirstDot(tok)
    IN IF n >= 2 /\ tok[1] = Quote /\ tok[n] = Quote
          /\ \A i \in 2..(n - 1) : tok[i] # Quote
       THEN String(SubSeq(tok, 2, n - 1))
       ELSE IF tok = <<"t","r","u","e">> THEN Bool(TRUE)
       ELSE IF tok = <<"f","a","l","s","e">> THEN Bool(FALSE)
       ELSE IF n >= 1 /\ AllDecimal(tok) /\ (n = 1 \/ tok[1] # "0")
            THEN int_of(tok)
       ELSE IF d > 1 /\ d < n /\ AllDecimal(replace_first_dot(tok))
               /\ (d = 2 \/ tok[1] # "0")
            THEN float_of(tok)
       ELSE ParseError

\* the value a token denotes
lex(tok) ==
    LET n     == Len(tok)
        inner == SubSeq(tok, 2, n - 1)
        elems == IF Len(inner) = 0 THEN <<>> ELSE SplitOn(inner, ",")
        vals  == [i \in 1..Len(elems) |-> lex_scalar(elems[i])]
    IN IF n >= 2 /\ tok[1] = "[" /\ tok[n] = "]"
       THEN IF \E i \in 1..Len(vals) : vals[i] = ParseError
            THEN ParseError ELSE Array(vals)
       ELSE lex_scalar(tok)

\* the path exists in root and every node on it is a table
RECURSIVE IsTablePath(_, _)
IsTablePath(root, path) ==
    IF Len(path) = 0 THEN IsTable(root)
    ELSE /\ IsTable(root)
         /\ HasKey(root.b, path[1])
         /\ IsTablePath(GetKey(root.b, path[1]), Tail(path))

\* a `[path]` header: the tables on the path that are missing are created;
\* a path that runs into a value that is not a table is an error
RECURSIVE open_table(_, _, _)
open_table(d, path, i) ==
    IF i > Len(path) THEN d
    ELSE LET cur == SubSeq(path, 1, i - 1)
             at  == NodeAt(d, cur)
         IN IF ~HasKey(at.b, path[i])
            THEN open_table(SetAt(d, cur, path[i], Table(<<>>)), path, i + 1)
            ELSE IF IsTable(GetKey(at.b, path[i])) /\ i < Len(path)
            THEN open_table(d, path, i + 1)
            ELSE ParseError

\* tomlkit.parse, from line i, the current table being the one at cur
RECURSIVE parse_lines(_, _, _, _)
parse_lines(lines, i, d, cur) ==
    IF i > Len(lines) THEN d
    ELSE LET l == lines[i]
         IN IF l.line = "header"
            THEN LET path == str_split(l.key)
                     d2   == open_table(d, path, 1)
                 IN IF d2 = ParseError THEN ParseError
                    ELSE parse_lines(lines, i + 1, d2, path)
            ELSE LET v == lex(l.tok)
                 IN IF v = ParseError \/ HasKey(NodeAt(d, cur).b, l.key)
                    THEN ParseError
                    ELSE parse_lines(lines, i + 1, SetAt(d, cur, l.key, v), cur)

toml_parse(lines) == parse_lines(lines, 1, Table(<<>>), <<>>)

\* tomlkit.dumps of one table: its values first, then its tables, each
\* under its header
RECURSIVE dumps_table(_, _, _, _)
dumps_table(body, path, i, tables) ==
    IF i > Len(body)
    THEN IF tables THEN <<>> ELSE dumps_table(body, path, 1, TRUE)
    ELSE LET e == body[i]
             p == Append(path, e.k)
         IN (IF tables = IsTable(e.v)
             THEN IF tables
                  THEN <<Header(str_join(p))>> \o dumps_table(e.v.b, p, 1, FALSE)
                  ELSE <<KV(e.k, render(e.v))>>
             ELSE <<>>)
            \o dumps_table(body, path, i + 1, tables)

toml_dumps(d) == dumps_table(d.b, <<>>, 1, FALSE)

\* ------------------------------------------------------------------------
\* Inputs
\* ------------------------------------------------------------------------

\* invocations of the same command line in succession
MaxRuns == 2

Deploy    == "deploy/toml_edit.py"
Pnm       == "push-node-manager/scripts/toml_edit.py"
Validator == "validator/scripts/toml_edit.py"
Impls     == {Deploy, Pnm, Validator}

Present(lines) == [exists |-> TRUE, lines |-> lines]
NoFile         == [exists |-> FALSE, lines |-> <<>>]

\* k at the root and in two tables; an integer, an array
FileRoot ==
    Present(<< KV(<<"k">>, <<Quote,"o","l","d",Quote>>),
               KV(<<"n">>, <<"7">>),
               KV(<<"l">>, <<"[",Quote,"u",Quote,"]">>),
               Header(<<"s">>),
               KV(<<"k">>, <<"1">>),
               Header(<<"t">>),
               KV(<<"k">>, <<"t","r","u","e">>) >>)

\* k in two tables and not at the root; n and x in one table each; a
\* table inside a table
FileSections ==
    Present(<< Header(<<"s">>),
               KV(<<"k">>, <<"1">>),
               KV(<<"x">>, <<Quote,"u","k",Quote>>),
               Header(<<"s",".","u">>),
               KV(<<"k">>, <<"1",".","5">>),
               Header(<<"t">>),
               KV(<<"k">>, <<"f","a","l","s","e">>),
               KV(<<"n">>, <<"2">>) >>)

FileEmpty == Present(<<>>)

\* not TOML: a bare word as a value
FileInvalid == Present(<< KV(<<"k">>, <<"o","o","p","s">>) >>)

Files == {FileRoot, FileSections, FileEmpty, FileInvalid, NoFile}

KeyPaths ==
    { <<"k">>, <<"n">>, <<"x">>, <<"q">>, <<"s">>,
      <<"s",".","k">>, <<"s",".","q">>, <<"s",".","u">>, <<"t",".","n">>,
      <<"s",".","u",".","k">>, <<"s",".","x",".","k">>, <<"s",".","x",".","q">>,
      <<"n",".","k">>, <<"n",".","k",".","q">>, <<"l",".","u">>, <<"l",".","k">>,
      <<"p",".","k">>, <<"p",".","q",".","k">> }

Values ==
    { <<"t","r","u","e">>, <<"F","a","l","s","e">>, <<"4","2">>,
      <<"3",".","1","4">>, <<"5",".">>, <<"1",".","2",".","3">>,
      <<"a","b">>, <<"sup2">> }

\* ------------------------------------------------------------------------
\* The invocation
\* ------------------------------------------------------------------------

Running == -1
NoDoc   == Item("none", <<>>, 0, 0, <<>>, <<>>)
NoPrev  == [rc |-> Running, escaped |-> "none", file |-> NoFile]

\* how open(path, 'w') followed by f.write(text) can end: written; open
\* failed, the file is as it was; open truncated the file and write failed
WriteOutcomes == {"written", "open failed", "write failed"}

\* FileAfterWrite with the file opened in mode 'a'
FileAfterAppend(o, d) ==
    CASE o = "written"      -> Present(file.lines \o toml_dumps(d))
      [] o = "open failed"  -> file
      [] o = "write failed" -> file

\* the file after open(path, 'w') and f.write(tomlkit.dumps(d)) ended as o
FileAfterWrite(o, d) ==
    CASE o = "written"      -> Present(toml_dumps(d))
      [] o = "open failed"  -> file
      [] o = "write failed" -> Present(<<>>)

Init ==
    /\ impl \in Impls
    /\ file \in Files
    /\ \/ nargs = 4 /\ key_path \in KeyPaths /\ new_value \in Values
       \/ nargs = 3 /\ key_path = <<"k">> /\ new_value = <<>>
    /\ pc = "load"
    /\ doc = NoDoc
    /\ doc0 = NoDoc
    /\ rc = Running
    /\ out = Msg(MsgNone, <<>>)
    /\ escaped = "none"
    /\ run = 1
    /\ file0 = file
    /\ set_st = "none"
    /\ save_st = "none"
    /\ prev = NoPrev

\* sys.exit(1) after print(m)
Exit1(m) ==
    /\ pc' = "exit" /\ rc' = 1 /\ out' = m /\ escaped' = "none"

\* an exception nothing catches: the interpreter prints the traceback and
\* the process ends with status 1
Uncaught(e) ==
    /\ pc' = "exit" /\ rc' = 1 /\ out' = Msg(MsgTraceback, <<>>) /\ escaped' = e

Exit0(m) ==
    /\ pc' = "exit" /\ rc' = 0 /\ out' = m /\ escaped' = "none"

Goto(step) ==
    /\ pc' = step /\ UNCHANGED <<rc, out, escaped>>

Args == <<impl, nargs, key_path, new_value>>

\* src/deploy/toml_edit.py main, lines 50-66
deploy_load ==
    /\ impl = Deploy /\ pc = "load"
    /\ UNCHANGED <<Args, file, run, file0, set_st, save_st, prev>>
    /\ IF nargs # 4
       THEN Exit1(Msg(DUsage, <<>>)) /\ UNCHANGED <<doc, doc0>>
       ELSE IF ~file.exists
       THEN Exit1(Msg(DFileNotFound, <<>>)) /\ UNCHANGED <<doc, doc0>>
       ELSE LET d == toml_parse(file.lines)
            IN IF d = ParseError
               THEN Uncaught("ParseError") /\ UNCHANGED <<doc, doc0>>
               ELSE Goto("set") /\ doc' = d /\ doc0' = d

\* deploy_update with update_key printing its error and returning, the
\* sys.exit(1) of lines 20, 24, 44 and 47 left out
deploy_update_no_exit ==
    /\ impl = Deploy /\ pc = "set"
    /\ UNCHANGED <<Args, file, run, file0, doc0, save_st, prev>>
    /\ LET r == update_key(doc, key_path, String(new_value))
       IN /\ doc' = r.doc
          /\ set_st' = r.st
          /\ CASE r.st = "return" -> Goto("save")
               [] r.st = "exit1"  -> pc' = "save" /\ out' = r.out /\ UNCHANGED <<rc, escaped>>
               [] OTHER           -> Uncaught(r.st)

\* src/deploy/toml_edit.py main, line 69
deploy_update ==
    /\ impl = Deploy /\ pc = "set"
    /\ UNCHANGED <<Args, file, run, file0, doc0, save_st, prev>>
    /\ LET r == update_key(doc, key_path, String(new_value))
       IN /\ doc' = r.doc
          /\ set_st' = r.st
          /\ CASE r.st = "return" -> Goto("save")
               [] r.st = "exit1"  -> Exit1(r.out)
               [] OTHER           -> Uncaught(r.st)

\* src/deploy/toml_edit.py main, lines 72-75
deploy_save ==
    /\ impl = Deploy /\ pc = "save"
    /\ UNCHANGED <<Args, run, file0, doc, doc0, set_st, prev>>
    /\ \E o \in WriteOutcomes :
          /\ file' = FileAfterWrite(o, doc)
          /\ save_st' = o
          /\ IF o = "written"
             THEN Exit0(Msg(DUpdated, <<key_path, new_value>>))
             ELSE Uncaught("OSError")

\* src/push-node-manager/scripts/toml_edit.py main, lines 60-75, and load_toml
\* (main has checked that the file exists, so load_toml's FileNotFoundError
\* branch is not taken)
pnm_load ==
    /\ impl = Pnm /\ pc = "load"
    /\ UNCHANGED <<Args, file, run, file0, set_st, save_st, prev>>
    /\ IF nargs # 4
       THEN Exit1(Msg(PUsage, <<>>)) /\ UNCHANGED <<doc, doc0>>
       ELSE IF ~file.exists
       THEN Exit1(Msg(PNotExist, <<>>)) /\ UNCHANGED <<doc, doc0>>
       ELSE LET d == toml_parse(file.lines)
            IN IF d = ParseError
               THEN Exit1(Msg(PLoadError, <<>>)) /\ UNCHANGED <<doc, doc0>>
               ELSE Goto("set") /\ doc' = d /\ doc0' = d

\* src/push-node-manager/scripts/toml_edit.py main, line 76
pnm_set ==
    /\ impl = Pnm /\ pc = "set"
    /\ UNCHANGED <<Args, file, run, file0, doc0, save_st, prev>>
    /\ LET r == set_nested_value(doc, key_path, new_value)
       IN /\ doc' = r.doc
          /\ set_st' = r.st
          /\ IF r.st = "return" THEN Goto("save") ELSE Uncaught(r.st)

\* src/push-node-manager/scripts/toml_edit.py main, lines 77-79, and save_toml
pnm_save ==
    /\ impl = Pnm /\ pc = "save"
    /\ UNCHANGED <<Args, run, file0, doc, doc0, set_st, prev>>
    /\ \E o \in WriteOutcomes :
          /\ file' = FileAfterWrite(o, doc)
          /\ save_st' = o
          /\ IF o = "written"
             THEN Exit0(Msg(PUpdated, <<key_path, new_value>>))
             ELSE Exit1(Msg(PSaveError, <<>>))

\* src/validator/scripts/toml_edit.py, lines 38-46 and 10-12: every
\* exception of edit_toml is caught at line 33
validator_load ==
    /\ impl = Validator /\ pc = "load"
    /\ UNCHANGED <<Args, file, run, file0, set_st, save_st, prev>>
    /\ IF nargs # 4
       THEN Exit1(Msg(VUsage, <<>>)) /\ UNCHANGED <<doc, doc0>>
       ELSE IF ~file.exists
       THEN Exit1(Msg(VError, <<>>)) /\ UNCHANGED <<doc, doc0>>
       ELSE LET d == toml_parse(file.lines)
            IN IF d = ParseError
               THEN Exit1(Msg(VError, <<>>)) /\ UNCHANGED <<doc, doc0>>
               ELSE Goto("set") /\ doc' = d /\ doc0' = d

\* src/validator/scripts/toml_edit.py edit_toml, lines 15-24
validator_set ==
    /\ impl = Validator /\ pc = "set"
    /\ UNCHANGED <<Args, file, run, file0, doc0, save_st, prev>>
    /\ LET r == edit_toml_set(doc, key_path, new_value)
       IN /\ doc' = r.doc
          /\ set_st' = r.st
          /\ IF r.st = "return" THEN Goto("save") ELSE Exit1(r.out)

\* src/validator/scripts/toml_edit.py edit_toml, lines 27-35, and 46-49
validator_write ==
    /\ impl = Validator /\ pc = "save"
    /\ UNCHANGED <<Args, run, file0, doc, doc0, set_st, prev>>
    /\ \E o \in WriteOutcomes :
          /\ file' = FileAfterWrite(o, doc)
          /\ save_st' = o
          /\ IF o = "written"
             THEN Exit0(Msg(VUpdated, <<key_path, new_value>>))
             ELSE Exit1(Msg(VError, <<>>))

\* the operator runs the same command line again on the file as it is now
Rerun ==
    /\ pc = "exit" /\ run < MaxRuns
    /\ UNCHANGED <<Args, file>>
    /\ prev' = [rc |-> rc, escaped |-> escaped, file |-> file]
    /\ run' = run + 1
    /\ pc' = "load"
    /\ doc' = NoDoc /\ doc0' = NoDoc
    /\ rc' = Running /\ out' = Msg(MsgNone, <<>>) /\ escaped' = "none"
    /\ file0' = file
    /\ set_st' = "none" /\ save_st' = "none"

Next ==
    \/ deploy_load \/ deploy_update \/ deploy_save
    \/ pnm_load \/ pnm_set \/ pnm_save
    \/ validator_load \/ validator_set \/ validator_write
    \/ Rerun

Spec == Init /\ [][Next]_vars

\* ------------------------------------------------------------------------
\* Vocabulary of the properties
\* ------------------------------------------------------------------------

Dotted == FirstDot(key_path) # 0

Parts == str_split(key_path)

LastKey == Parts[Len(Parts)]

\* the intermediate segments of the path
Interior == SubSeq(Parts, 1, Len(Parts) - 1)

\* the set step has run in this invocation
SetRan == set_st # "none"

SetReturned == set_st = "return"

\* the value at path in root, NoDoc when the path leads nowhere
RECURSIVE ValueAt(_, _)
ValueAt(root, path) ==
    IF Len(path) = 0 THEN root
    ELSE IF IsTable(root) /\ HasKey(root.b, path[1])
         THEN ValueAt(GetKey(root.b, path[1]), Tail(path))
         ELSE NoDoc

KeysOf(table) == [i \in 1..Len(table.b) |-> table.b[i].k]

\* the keys of the root's tables that hold key k
ChildTablesWith(root, k) ==
    { root.b[i].k : i \in { j \in 1..Len(root.b) :
                              /\ IsTable(root.b[j].v)
                              /\ HasKey(root.b[j].v.b, k) } }

\* the first intermediate segment that does not resolve to a table, 0 when
\* all of them do
FirstUnresolved(root, interior) ==
    IF \E i \in 1..Len(interior) : ~IsTablePath(root, SubSeq(interior, 1, i))
    THEN CHOOSE i \in 1..Len(interior) :
            /\ ~IsTablePath(root, SubSeq(interior, 1, i))
            /\ \A j \in 1..(i - 1) : IsTablePath(root, SubSeq(interior, 1, j))
    ELSE 0

\* the value each script passes to the final assignment
Stored ==
    IF impl = Pnm THEN coerce(new_value) ELSE String(new_value)

\* ------------------------------------------------------------------------
\* C1  update_key, bare key
\* ------------------------------------------------------------------------

BareDeploy == impl = Deploy /\ ~Dotted /\ SetRan

\* every entry of the root other than key k is as load returned it
RootOthersKept(k) ==
    /\ KeysOf(doc) = KeysOf(doc0)
    /\ \A i \in 1..Len(doc0.b) : doc0.b[i].k # k => doc.b[i] = doc0.b[i]

\* C1: in deploy's update_key a key without "." is set at the root when the
\* root has it, and then no table of the root is touched; otherwise it is
\* set in the one table of the root that has it; with no such table the
\* call fails with the key-not-found message, with more than one it fails
\* with the message that asks for dot notation.
C1_BareKeyResolution ==
    BareDeploy =>
        LET found == ChildTablesWith(doc0, key_path)
        IN IF HasKey(doc0.b, key_path)
           THEN /\ SetReturned
                /\ ValueAt(doc, <<key_path>>) = String(new_value)
                /\ RootOthersKept(key_path)
           ELSE IF Cardinality(found) = 1
           THEN LET tbl == CHOOSE c \in found : TRUE
                IN /\ SetReturned
                   /\ ValueAt(doc, <<tbl, key_path>>) = String(new_value)
                   /\ ~HasKey(doc.b, key_path)
                   /\ RootOthersKept(tbl)
           ELSE IF Cardinality(found) = 0
           THEN /\ set_st = "exit1"
                /\ rc = 1
                /\ out = Msg(DKeyNotFound, <<key_path>>)
           ELSE /\ set_st = "exit1"
                /\ rc = 1
                /\ out = Msg(DAmbiguous, <<key_path>>)

\* a bare key absent from the root and held by exactly one table was set there
C1_Witness ==
    /\ BareDeploy /\ SetReturned
    /\ ~HasKey(doc0.b, key_path)
    /\ Cardinality(ChildTablesWith(doc0, key_path)) = 1
    /\ doc # doc0

\* ------------------------------------------------------------------------
\* C5  ambiguity leaves the document as it was
\* ------------------------------------------------------------------------

Ambiguous ==
    /\ BareDeploy
    /\ ~HasKey(doc0.b, key_path)
    /\ Cardinality(ChildTablesWith(doc0, key_path)) >= 2

\* C5: a bare key absent from the root and present in two or more tables of
\* the root makes update_key fail with the ambiguity message, and the
\* document is the one load returned.
C5_AmbiguousLeavesDocument ==
    Ambiguous =>
        /\ set_st = "exit1"
        /\ out.msg = DAmbiguous
        /\ doc = doc0
        /\ save_st = "none"

C5_Witness == Ambiguous /\ pc = "exit" /\ rc = 1

\* ------------------------------------------------------------------------
\* C2  coercion of the raw value
\* ------------------------------------------------------------------------

\* the path of the key a successful set step assigned
ResolvedPath ==
    IF Dotted THEN Parts
    ELSE IF impl = Deploy /\ ~HasKey(doc0.b, key_path)
         THEN <<CHOOSE c \in ChildTablesWith(doc0, key_path) : TRUE, key_path>>
         ELSE <<key_path>>

\* the coercion as specified: boolean, then integer (all digits), then
\* float (digits with exactly one "."), else the string unchanged
Coerced(raw) ==
    IF str_lower(raw) \in {<<"t","r","u","e">>, <<"f","a","l","s","e">>}
    THEN Bool(str_lower(raw) = <<"t","r","u","e">>)
    ELSE IF Len(raw) > 0 /\ AllDecimal(raw) THEN Integer(DecimalValue(raw))
    ELSE IF /\ Cardinality({i \in 1..Len(raw) : raw[i] = "."}) = 1
            /\ Len(raw) > 1
            /\ \A i \in 1..Len(raw) : raw[i] \in AsciiDigits \cup {"."}
         THEN float_of(raw)
    ELSE String(raw)

\* C2: whatever the raw value, the value a set step stores is the raw value
\* coerced in the order boolean, integer, float, string ("42" is stored as
\* the integer 42). Stated for deploy and push-node-manager.
C2_StoredIsCoerced ==
    (impl \in {Deploy, Pnm} /\ SetReturned) =>
        ValueAt(doc, ResolvedPath) = Coerced(new_value)

\* ------------------------------------------------------------------------
\* C3  load, then set, then save; a failed step ends the invocation
\* ------------------------------------------------------------------------

\* C3: the set step runs only on a loaded document and the save step only
\* after the set step returned; when load fails or the set step fails
\* (sys.exit or an exception) the invocation is over, save was not reached
\* and the file is as it was when the invocation began.
C3_FailedStepAborts ==
    /\ SetRan => doc0 # NoDoc
    /\ save_st # "none" => SetReturned
    /\ (pc = "exit" /\ ~SetRan) => (rc = 1 /\ save_st = "none" /\ file = file0)
    /\ (SetRan /\ ~SetReturned) =>
           (pc = "exit" /\ rc = 1 /\ save_st = "none" /\ file = file0)

\* a set step that failed on an existing file, whatever the script
C3_Witness ==
    /\ SetRan /\ ~SetReturned
    /\ file0.exists /\ Len(file0.lines) > 0
    /\ file = file0

\* ------------------------------------------------------------------------
\* C4  every failure is caught and reported
\* ------------------------------------------------------------------------

\* C4: an invocation that has ended either saved the edit and exits 0, or
\* exits 1 after printing a message of the script that names the cause; no
\* exception leaves main uncaught.
C4_AllFailuresHandled ==
    pc = "exit" =>
        /\ escaped = "none"
        /\ rc \in {0, 1}
        /\ rc = 0 => save_st = "written"
        /\ rc = 1 => out.msg \notin {MsgNone, MsgTraceback}

\* ------------------------------------------------------------------------
\* C6  fail-if-missing: the first unresolved segment is named
\* ------------------------------------------------------------------------

UnresolvedInDeploy ==
    /\ impl = Deploy /\ Dotted /\ SetRan
    /\ FirstUnresolved(doc0, Interior) # 0

\* C6: in deploy's update_key a dotted path with an intermediate segment
\* that does not resolve to a table fails with the section-not-found
\* message naming the first such segment; the document and the file are
\* untouched and save is not reached.
C6_UnresolvedSegmentNamed ==
    UnresolvedInDeploy =>
        /\ set_st = "exit1"
        /\ out = Msg(DSection, <<Interior[FirstUnresolved(doc0, Interior)]>>)
        /\ doc = doc0
        /\ file = file0
        /\ save_st = "none"

\* ------------------------------------------------------------------------
\* C7  create-missing: the absent tables of the path are created
\* ------------------------------------------------------------------------

\* the intermediate segments resolve up to some table that lacks the next one
InteriorAbsent(root, interior) ==
    LET u == FirstUnresolved(root, interior)
    IN /\ u # 0
       /\ ValueAt(root, SubSeq(interior, 1, u)) = NoDoc

CreateMissing ==
    /\ impl \in {Pnm, Validator} /\ Dotted /\ SetRan
    /\ InteriorAbsent(doc0, Interior)

ParentResolved ==
    /\ Dotted /\ SetRan
    /\ IsTablePath(doc0, Interior)

SecondCycleEnded ==
    /\ run > 1 /\ pc = "exit"
    /\ prev.rc = 0
    /\ save_st \notin {"open failed", "write failed"}

\* C9: when an invocation succeeded and the same command line is run again
\* on the file it left, the second invocation, unless its write fails in
\* the file system, succeeds too and leaves the file as the first left it.
C9_SecondCycleIdempotent ==
    SecondCycleEnded => (rc = 0 /\ save_st = "written" /\ file = prev.file)

\* both cycles wrote, and the value written is a float whose text in the
\* file is not the text given on the command line
C9_Witness ==
    /\ SecondCycleEnded /\ rc = 0
    /\ file = prev.file
    /\ Stored.t = "float"
    /\ render(Stored) # new_value
    /\ ValueAt(toml_parse(file.lines), ResolvedPath) = Stored

\* ------------------------------------------------------------------------
\* C10  frame of a successful set step
\* ------------------------------------------------------------------------

\* new differs from old only along path: every key of old is there, in the
\* order it had, with the value it had unless it is the next segment of
\* the path; the only key new may add is that segment
RECURSIVE OnlyPathChanged(_, _, _)
OnlyPathChanged(old, new, path) ==
    LET seg == path[1]
    IN /\ IsTable(new)
       /\ SelectSeq(KeysOf(new), LAMBDA k : HasKey(old.b, k)) = KeysOf(old)
       /\ \A i \in 1..Len(new.b) : HasKey(old.b, new.b[i].k) \/ new.b[i].k = seg
       /\ \A i \in 1..Len(new.b) : \A j \in 1..Len(new.b) :
              new.b[i].k = new.b[j].k => i = j
       /\ \A i \in 1..Len(old.b) :
              old.b[i].k # seg => GetKey(new.b, old.b[i].k) = old.b[i].v
       /\ HasKey(new.b, seg)
       /\ Len(path) > 1 =>
              OnlyPathChanged(IF HasKey(old.b, seg) THEN GetKey(old.b, seg)
                              ELSE Table(<<>>),
                              GetKey(new.b, seg), Tail(path))

\* C10: a set step that returned changed the document at the resolved key
\* only: every other key of every table has the value and the place it had,
\* none is removed, and the keys added are the resolved key and, in the
\* scripts that create them, the tables on its path; deploy's update_key
\* adds no key at all.
C10_OnlyResolvedKeyChanges ==
    SetReturned =>
        /\ OnlyPathChanged(doc0, doc, ResolvedPath)
        /\ ValueAt(doc, ResolvedPath) = Stored
        /\ impl = Deploy => ValueAt(doc0, ResolvedPath) # NoDoc

\* a key in a table with other keys was set, and the document changed
C10_Witness ==
    /\ SetReturned
    /\ Len(ResolvedPath) = 2
    /\ Len(ValueAt(doc0, <<ResolvedPath[1]>>).b) >= 2
    /\ Len(doc0.b) >= 2
    /\ doc # doc0

====
